---- MODULE Spec2Model ----
(***************************************************************************)
(* A model of the adaptive radix tree of src/art.hpp: the four inner node  *)
(* layouts (Node4, Node16, Node48, Node256), the leaf, the Node envelope   *)
(* with its compressed prefix, Node::grow, and ArtTree::insert, search and *)
(* the destructor.                                                         *)
(*                                                                         *)
(* Three specifications share the definitions:                             *)
(*   NodeSpec    one Node driven through add_child / find_child / grow,    *)
(*   PrefixSpec  Node::check_prefix applied to bounded inputs,             *)
(*   Spec        an ArtTree driven through insert / search / ~ArtTree.     *)
(* Pointers are natural numbers, NULL is 0.  Arrays are sequences; the C++ *)
(* index i is the TLA+ index i + 1.                                        *)
(***************************************************************************)
EXTENDS Integers, Sequences, FiniteSets, TLC

VARIABLES
  un,        \* NodeSpec: the Node under test
  uinit,     \* NodeSpec: the kind the node was made with
  ustart,    \* NodeSpec: first byte of the sequence of bytes offered to add_child
  ustep,     \* NodeSpec: stride of that sequence
  ucount,    \* NodeSpec: number of add_child calls made
  uadded,    \* NodeSpec: the <<byte, child>> pairs add_child accepted
  ures,      \* NodeSpec: the last call and what it returned
  cp,        \* PrefixSpec: the inputs of check_prefix and its result
  heap,      \* Spec: every Node ever allocated, by pointer (freed ones stay, stale)
  freed,     \* Spec: how many times each Node (envelope and payload) was deleted
  root,      \* Spec: ArtTree::root_
  status,    \* Spec: "running", "aborted" (assertion or trapped access), "destroyed"
  ub,        \* Spec: the undefined behaviours the calls so far have run into
  profile,   \* Spec: the universe the keys and values of this run are drawn from
  model,     \* Spec: for every key inserted so far, the value of its last insert
  repeated,  \* Spec: some key was inserted more than once
  ninserts,  \* Spec: number of insert calls
  sres       \* Spec: the last call and what it returned

uvars == <<un, uinit, ustart, ustep, ucount, uadded, ures>>
tvars == <<heap, freed, root, status, ub, profile, model, repeated, ninserts, sres>>
vars == <<un, uinit, ustart, ustep, ucount, uadded, ures, cp,
          heap, freed, root, status, ub, profile, model, repeated, ninserts, sres>>

----------------------------------------------------------------------------
(* Program constants *)

MAX_PREFIX_LEN == 16
NULL == 0
NOIDX == 255

Cap4 == 4
Cap16 == 16
Cap48 == 48
Cap256 == 256

Byte == 0..255

InnerKinds == {"Node4", "Node16", "Node48", "Node256"}

----------------------------------------------------------------------------
(* Bounds of the model *)

\* add_child calls beyond the capacity of the layout the node was made with
MaxExtra == 2
\* longest key and longest prefix handed to check_prefix on its own
MaxCpKey == 3
MaxCpPrefix == 2
\* largest depth handed to check_prefix on its own
MaxCpDepth == 2
\* insert calls in one run of a profile of nested keys
MaxInserts == 3
\* insert calls in one run of the profile of single-byte keys
MaxWideInserts == 5
\* bytes readable past the end of a buffer before the access traps
TailLen == 1

----------------------------------------------------------------------------
(* Generic helpers *)

Pow2(i) == 2 ^ i

\* the sequence s with every element replaced by v
Fill(n, v) == [i \in 1..n |-> v]

----------------------------------------------------------------------------
(* Bitmap, over the single byte key[4] of a Node4 *)

get_bit(byte, size, index) ==
  IF index \div 8 >= size THEN FALSE
  ELSE (byte \div Pow2(index % 8)) % 2 = 1

set_bit(byte, size, index) ==
  IF index \div 8 >= size THEN byte
  ELSE IF (byte \div Pow2(index % 8)) % 2 = 1 THEN byte
  ELSE byte + Pow2(index % 8)

----------------------------------------------------------------------------
(* The Node envelope and its payloads.  One record carries the envelope's   *)
(* fields and the fields of whichever payload `inner` points to:           *)
(*   Node4    key (5 bytes, key[4] is the bitmap byte), children (4)       *)
(*   Node16   key (16 bytes), children (16)                                *)
(*   Node48   children (48), child_index (256 bytes)                       *)
(*   Node256  children (256)                                               *)
(*   Leaf     lkey, lval (the two parts of NodeLeaf::raw)                  *)

BlankNode ==
  [type |-> "Invalid", prefix |-> Fill(MAX_PREFIX_LEN, 0), prefix_len |-> 0,
   key |-> <<>>, children |-> <<>>, child_index |-> <<>>,
   lkey |-> <<>>, lval |-> <<>>]

NewNode4 == [BlankNode EXCEPT !.type = "Node4", !.key = Fill(5, 0),
                              !.children = Fill(Cap4, NULL)]

NewNode16 == [BlankNode EXCEPT !.type = "Node16", !.key = Fill(Cap16, 0),
                               !.children = Fill(Cap16, NULL)]

NewNode48 == [BlankNode EXCEPT !.type = "Node48",
                               !.children = Fill(Cap48, NULL),
                               !.child_index = Fill(256, NOIDX)]

NewNode256 == [BlankNode EXCEPT !.type = "Node256",
                                !.children = Fill(Cap256, NULL)]

NewLeaf(k, v) == [BlankNode EXCEPT !.type = "Leaf", !.lkey = k, !.lval = v]

make_node(type, leaf_key, leaf_val) ==
  CASE type = "Node4" -> NewNode4
    [] type = "Node16" -> NewNode16
    [] type = "Node48" -> NewNode48
    [] type = "Node256" -> NewNode256
    [] type = "Leaf" -> NewLeaf(leaf_key, leaf_val)
    [] OTHER -> BlankNode

\* index of the first slot of children[0..cap) that holds nullptr, cap if none
FirstFree(children, cap) ==
  IF \E i \in 0..(cap - 1) : children[i + 1] = NULL
  THEN CHOOSE i \in 0..(cap - 1) :
         /\ children[i + 1] = NULL
         /\ \A j \in 0..(i - 1) : children[j + 1] # NULL
  ELSE cap

\* the first of the slots `matching` that a scan of key[0..cap) meets, cap if none
FirstSlot(cap, matching) ==
  IF matching # {}
  THEN CHOOSE i \in matching : \A j \in matching : i <= j
  ELSE cap

(* add_child returns [ok, n]: the bool result and the node afterwards.      *)

Node4_add_child(n, ch, child, is_leaf) ==
  LET i == FirstFree(n.children, Cap4) IN
  IF i < Cap4
  THEN [ok |-> TRUE,
        n |-> [n EXCEPT !.children[i + 1] = child,
                        !.key = [@ EXCEPT ![i + 1] = ch,
                                          ![5] = IF is_leaf
                                                 THEN set_bit(@, 1, i)
                                                 ELSE @]]]
  ELSE [ok |-> FALSE, n |-> n]

\* Node16::add_child that stores the child but not its byte
Node16_add_child_NoKey(n, ch, child) ==
  LET i == FirstFree(n.children, Cap16) IN
  IF i < Cap16
  THEN [ok |-> TRUE, n |-> [n EXCEPT !.children[i + 1] = child]]
  ELSE [ok |-> FALSE, n |-> n]

Node16_add_child(n, ch, child) ==
  LET i == FirstFree(n.children, Cap16) IN
  IF i < Cap16
  THEN [ok |-> TRUE,
        n |-> [n EXCEPT !.children[i + 1] = child, !.key[i + 1] = ch]]
  ELSE [ok |-> FALSE, n |-> n]

\* Node48::add_child that reuses the last slot instead of reporting a full node
Node48_add_child_Overwrite(n, ch, child) ==
  LET f == FirstFree(n.children, Cap48)
      i == IF f < Cap48 THEN f ELSE Cap48 - 1
  IN
  [ok |-> TRUE,
   n |-> [n EXCEPT !.children[i + 1] = child, !.child_index[ch + 1] = i]]

Node48_add_child(n, ch, child) ==
  LET i == FirstFree(n.children, Cap48) IN
  IF i < Cap48
  THEN [ok |-> TRUE,
        n |-> [n EXCEPT !.children[i + 1] = child,
                        !.child_index[ch + 1] = i]]
  ELSE [ok |-> FALSE, n |-> n]

Node256_add_child(n, ch, child) ==
  IF n.children[ch + 1] = NULL
  THEN [ok |-> TRUE, n |-> [n EXCEPT !.children[ch + 1] = child]]
  ELSE [ok |-> FALSE, n |-> n]

(* find_child returns a Node**: 0 for nullptr, otherwise s + 1 where s is   *)
(* the index of the slot of children[] the returned pointer points to.     *)

Node4_find_child(n, ch, is_leaf) ==
  LET i == IF is_leaf
           THEN FirstSlot(Cap4, {s \in 0..(Cap4 - 1) :
                                   n.key[s + 1] = ch /\ get_bit(n.key[5], 1, s)})
           ELSE FirstSlot(Cap4, {s \in 0..(Cap4 - 1) : n.key[s + 1] = ch})
  IN IF i < Cap4 THEN i + 1 ELSE 0

Node16_find_child(n, ch) ==
  LET i == FirstSlot(Cap16, {s \in 0..(Cap16 - 1) : n.key[s + 1] = ch})
  IN IF i < Cap16 THEN i + 1 ELSE 0

Node48_find_child(n, ch) ==
  LET index == n.child_index[ch + 1]
  IN IF index = NOIDX THEN 0 ELSE index + 1

Node256_find_child(n, ch) ==
  IF n.children[ch + 1] # NULL THEN ch + 1 ELSE 0

(* Node::find_child and Node::add_child dispatch on the kind; `halt` names  *)
(* the assertion that fails, "" if none does.                              *)

find_child(n, ch, is_leaf) ==
  CASE n.type = "Node4" -> [slot |-> Node4_find_child(n, ch, is_leaf), halt |-> ""]
    [] n.type = "Node16" -> [slot |-> Node16_find_child(n, ch), halt |-> ""]
    [] n.type = "Node48" -> [slot |-> Node48_find_child(n, ch), halt |-> ""]
    [] n.type = "Node256" -> [slot |-> Node256_find_child(n, ch), halt |-> ""]
    [] n.type = "Leaf" -> [slot |-> 0, halt |-> "Leaf node can't add child"]
    [] OTHER -> [slot |-> 0, halt |-> "Invalid node type"]

add_child(n, ch, child, is_leaf) ==
  CASE n.type = "Node4" -> Node4_add_child(n, ch, child, is_leaf) @@ [halt |-> ""]
    [] n.type = "Node16" -> Node16_add_child(n, ch, child) @@ [halt |-> ""]
    [] n.type = "Node48" -> Node48_add_child(n, ch, child) @@ [halt |-> ""]
    [] n.type = "Node256" -> Node256_add_child(n, ch, child) @@ [halt |-> ""]
    [] n.type = "Leaf" -> [ok |-> TRUE, n |-> n, halt |-> "Leaf node can't add child"]
    [] OTHER -> [ok |-> FALSE, n |-> n, halt |-> "Invalid node type"]

\* the Node* a find_child result points to (the slot's content)
Deref(n, slot) == IF slot = 0 THEN NULL ELSE n.children[slot]

----------------------------------------------------------------------------
(* Node::grow.  The envelope (prefix, prefix_len) stays, the payload is     *)
(* replaced by one of the next larger layout filled from the old payload.  *)

RECURSIVE Grow4Loop(_, _, _)
Grow4Loop(n4, n16, i) ==
  IF i >= Cap4 THEN n16
  ELSE Grow4Loop(n4, Node16_add_child(n16, n4.key[i + 1], n4.children[i + 1]).n,
                 i + 1)

RECURSIVE Grow16Loop(_, _, _)
Grow16Loop(n16, n48, i) ==
  IF i >= Cap16 THEN n48
  ELSE Grow16Loop(n16,
                  IF n16.children[i + 1] # NULL
                  THEN Node48_add_child(n48, n16.key[i + 1], n16.children[i + 1]).n
                  ELSE n48,
                  i + 1)

RECURSIVE Grow48Loop(_, _, _)
Grow48Loop(n48, n256, i) ==
  IF i >= Cap48 THEN n256
  ELSE Grow48Loop(n48,
                  IF n48.children[i + 1] # NULL
                  THEN Node256_add_child(n256, i, n48.children[i + 1]).n
                  ELSE n256,
                  i + 1)

\* the new payload under the old envelope
Envelope(n, payload) ==
  [payload EXCEPT !.prefix = n.prefix, !.prefix_len = n.prefix_len]

grow(n) ==
  CASE n.type = "Node4" ->
         [n |-> Envelope(n, Grow4Loop(n, NewNode16, 0)), halt |-> ""]
    [] n.type = "Node16" ->
         [n |-> Envelope(n, Grow16Loop(n, NewNode48, 0)), halt |-> ""]
    [] n.type = "Node48" ->
         [n |-> Envelope(n, Grow48Loop(n, NewNode256, 0)), halt |-> ""]
    [] n.type = "Node256" -> [n |-> n, halt |-> "Node256 can't grow"]
    [] n.type = "Leaf" -> [n |-> n, halt |-> "Leaf node can't grow"]
    [] OTHER -> [n |-> n, halt |-> "Invalid node type"]

\* number of occupied slots of an inner node
Occupied(n) == Cardinality({s \in 1..Len(n.children) : n.children[s] # NULL})

Capacity(type) ==
  CASE type = "Node4" -> Cap4
    [] type = "Node16" -> Cap16
    [] type = "Node48" -> Cap48
    [] type = "Node256" -> Cap256
    [] OTHER -> 0

\* Node::is_full that reports an inner node all of whose slots are occupied
is_full_AtCapacity(n) ==
  CASE n.type = "Node4" -> [full |-> Occupied(n) = Capacity(n.type), halt |-> ""]
    [] n.type = "Node16" -> [full |-> Occupied(n) = Capacity(n.type), halt |-> ""]
    [] n.type = "Node48" -> [full |-> Occupied(n) = Capacity(n.type), halt |-> ""]
    [] n.type = "Node256" -> [full |-> Occupied(n) = Capacity(n.type), halt |-> ""]
    [] n.type = "Leaf" -> [full |-> TRUE, halt |-> ""]
    [] OTHER -> [full |-> FALSE, halt |-> "Invalid node type"]

is_full(n) ==
  CASE n.type = "Node4" -> [full |-> FALSE, halt |-> ""]
    [] n.type = "Node16" -> [full |-> FALSE, halt |-> ""]
    [] n.type = "Node48" -> [full |-> FALSE, halt |-> ""]
    [] n.type = "Node256" -> [full |-> FALSE, halt |-> ""]
    [] n.type = "Leaf" -> [full |-> TRUE, halt |-> ""]
    [] OTHER -> [full |-> FALSE, halt |-> "Invalid node type"]

Node_is_leaf(n) == n.type = "Leaf"

(* Node::check_prefix: i starts at depth and indexes both key and prefix.   *)

RECURSIVE CheckPrefixLoop(_, _, _, _)
CheckPrefixLoop(prefix, prefix_len, key, i) ==
  IF i < prefix_len /\ i < Len(key) /\ key[i + 1] = prefix[i + 1]
  THEN CheckPrefixLoop(prefix, prefix_len, key, i + 1)
  ELSE i

check_prefix(n, key, depth) ==
  CheckPrefixLoop(n.prefix, n.prefix_len, key, depth) - depth

----------------------------------------------------------------------------
(* NodeSpec: one Node, made by make_node with an inner kind, on which       *)
(* add_child, find_child and grow are called as the unit tests do.  The    *)
(* n-th add_child call offers the byte ustart + n * ustep and a fresh      *)
(* child pointer n + 1.                                                    *)

Starts == {0, 97}
Steps == {1, 255}

NoRes ==
  [op |-> "none", ch |-> 0, is_leaf |-> FALSE, ok |-> FALSE, slot |-> 0,
   child |-> NULL, halt |-> ""]

NodeIdle ==
  /\ un = BlankNode
  /\ uinit = "Invalid"
  /\ ustart = 0
  /\ ustep = 0
  /\ ucount = 0
  /\ uadded = {}
  /\ ures = NoRes

NoSres == [op |-> "none", key |-> <<>>, found |-> FALSE, val |-> <<>>]

TreeIdle ==
  /\ heap = <<>>
  /\ freed = <<>>
  /\ root = NULL
  /\ status = "running"
  /\ ub = {}
  /\ profile = "none"
  /\ model = <<>>
  /\ repeated = FALSE
  /\ ninserts = 0
  /\ sres = NoSres

PrefixIdle == cp = [prefix |-> <<>>, prefix_len |-> 0, key |-> <<>>, depth |-> 0,
                    res |-> 0, done |-> FALSE]

NodeInit ==
  /\ uinit \in InnerKinds
  /\ un = make_node(uinit, <<>>, <<>>)
  /\ ustart \in Starts
  /\ ustep \in Steps
  /\ ucount = 0
  /\ uadded = {}
  /\ ures = NoRes
  /\ PrefixIdle
  /\ TreeIdle

NextByte == (ustart + ucount * ustep) % 256

AddChild(is_leaf) ==
  /\ ures.halt = ""
  /\ ucount < Capacity(uinit) + MaxExtra
  /\ LET ch == NextByte
         child == ucount + 1
         r == add_child(un, ch, child, is_leaf)
     IN /\ un' = r.n
        /\ ucount' = ucount + 1
        /\ uadded' = IF r.ok /\ r.halt = "" THEN uadded \cup {<<ch, child>>}
                     ELSE uadded
        /\ ures' = [NoRes EXCEPT !.op = "add_child", !.ch = ch,
                                 !.is_leaf = is_leaf, !.ok = r.ok,
                                 !.child = child, !.halt = r.halt]
  /\ UNCHANGED <<uinit, ustart, ustep, cp>>
  /\ UNCHANGED tvars

\* the bytes find_child is asked for: 0x00, the last byte offered, the next one
Probes == {0, (ustart + (ucount + 255) * ustep) % 256, NextByte}

FindChild(ch, is_leaf) ==
  /\ ures.halt = ""
  /\ LET r == find_child(un, ch, is_leaf)
     IN ures' = [NoRes EXCEPT !.op = "find_child", !.ch = ch,
                              !.is_leaf = is_leaf, !.slot = r.slot,
                              !.child = Deref(un, r.slot), !.halt = r.halt]
  /\ UNCHANGED <<un, uinit, ustart, ustep, ucount, uadded, cp>>
  /\ UNCHANGED tvars

Grow ==
  /\ ures.halt = ""
  /\ LET r == grow(un)
     IN /\ un' = r.n
        /\ ures' = [NoRes EXCEPT !.op = "grow", !.halt = r.halt]
  /\ UNCHANGED <<uinit, ustart, ustep, ucount, uadded, cp>>
  /\ UNCHANGED tvars

NodeNext ==
  \/ \E is_leaf \in BOOLEAN : AddChild(is_leaf)
  \/ \E ch \in Probes, is_leaf \in BOOLEAN : FindChild(ch, is_leaf)
  \/ Grow

NodeSpec == NodeInit /\ [][NodeNext]_vars

----------------------------------------------------------------------------
(* PrefixSpec: check_prefix on a node whose prefix and prefix_len are set   *)
(* as insert sets them, for every key and depth within the bounds.        *)

CpBytes == {1, 2}

SeqsUpTo(S, n) == UNION {[1..k -> S] : k \in 0..n}

\* the prefix array holding the bytes p: the rest keeps make_node's zeros
PrefixArray(p) == [i \in 1..MAX_PREFIX_LEN |-> IF i <= Len(p) THEN p[i] ELSE 0]

PrefixInit ==
  /\ \E p \in SeqsUpTo(CpBytes, MaxCpPrefix), k \in SeqsUpTo(CpBytes, MaxCpKey),
        d \in 0..MaxCpDepth :
       cp = [prefix |-> PrefixArray(p), prefix_len |-> Len(p), key |-> k,
             depth |-> d, res |-> 0, done |-> FALSE]
  /\ NodeIdle
  /\ TreeIdle

CheckPrefix ==
  /\ ~cp.done
  /\ cp' = [cp EXCEPT !.res = check_prefix([NewNode4 EXCEPT !.prefix = cp.prefix,
                                                            !.prefix_len = cp.prefix_len],
                                           cp.key, cp.depth),
                      !.done = TRUE]
  /\ UNCHANGED uvars
  /\ UNCHANGED tvars

PrefixNext == CheckPrefix

PrefixSpec == PrefixInit /\ [][PrefixNext]_vars

----------------------------------------------------------------------------
(* The tree.  A tree state S is [heap, freed, root, status, ub].  A call    *)
(* that runs into undefined behaviour has several outcomes, so insert,     *)
(* search and the destructor yield the SET of states (results) they can    *)
(* end in: an invalid access either traps (the build of src/CMakeLists.txt *)
(* uses -fsanitize=address; a plain build can fault) or goes through and   *)
(* reads what the memory holds.                                            *)

\* the bytes an out-of-bounds read can find
JunkBytes == {0, 1}

Trap(S, why) == [S EXCEPT !.status = "aborted", !.ub = @ \cup {why}]

Flag(S, why) == [S EXCEPT !.ub = @ \cup {why}]

\* *node_ref, where node_ref is &root_ (<<0, 0>>) or &children[s - 1] of node n (<<n, s>>)
Load(S, ref) ==
  IF ref[1] = 0 THEN S.root ELSE S.heap[ref[1]].children[ref[2]]

\* *node_ref = p
Store(S, ref, p) ==
  IF ref[1] = 0 THEN [S EXCEPT !.root = p]
  ELSE [S EXCEPT !.heap[ref[1]].children[ref[2]] = p]

\* new Node: the pointer is the next unused number
Alloc(S, n) ==
  [S EXCEPT !.heap = Append(@, n), !.freed = Append(@, 0)]

NewPtr(S) == Len(S.heap) + 1

\* delete p: a second delete of the same Node is trapped or corrupts the allocator
Delete(S, p) ==
  IF S.freed[p] = 0 THEN {[S EXCEPT !.freed[p] = 1]}
  ELSE {Trap(S, "double free"),
        [Flag(S, "double free") EXCEPT !.freed[p] = @ + 1]}

\* a read of *p: of a deleted Node it is trapped or sees the stale content
Touch(S, p) ==
  IF S.freed[p] = 0 THEN {S}
  ELSE {Trap(S, "use after free"), Flag(S, "use after free")}

(* Byte i of a buffer of `size` valid bytes of which mem is the part read   *)
(* so far (the valid bytes and the bytes found behind them).  Yields       *)
(* [trap, byte, mem, oob].                                                 *)
ReadMem(mem, size, i) ==
  IF i < Len(mem)
  THEN {[trap |-> FALSE, byte |-> mem[i + 1], mem |-> mem, oob |-> i >= size]}
  ELSE {[trap |-> TRUE, byte |-> 0, mem |-> mem, oob |-> TRUE]}
       \cup IF i = Len(mem) /\ Len(mem) - size < TailLen
            THEN {[trap |-> FALSE, byte |-> b, mem |-> Append(mem, b), oob |-> TRUE]
                    : b \in JunkBytes}
            ELSE {}

\* prefix[j] = b: the array has MAX_PREFIX_LEN bytes, a write behind them is lost to the model
WritePrefix(prefix, j, b) ==
  IF j < MAX_PREFIX_LEN THEN [prefix EXCEPT ![j + 1] = b] ELSE prefix

(* The common-prefix loop of the leaf case:                                 *)
(*   for (; key[i] == key2[i]; i++) new_node->prefix[i - depth] = key[i];  *)
(* key is read through kmem (ksize valid bytes), key2 through lmem, the    *)
(* leaf's raw buffer, whose lkeysize first bytes are the key and whose     *)
(* lsize bytes are the allocation.  Yields [trap, i, prefix, kmem, flags]. *)
RECURSIVE SplitLoop(_, _, _, _, _, _, _, _, _)
SplitLoop(kmem, ksize, lmem, lkeysize, lsize, prefix, depth, i, flags) ==
  UNION {
    IF rk.trap
    THEN {[trap |-> TRUE, i |-> i, prefix |-> prefix, kmem |-> kmem,
           flags |-> flags \cup {"key read out of bounds"}]}
    ELSE UNION {
      LET fl == flags
                \cup (IF rk.oob THEN {"key read out of bounds"} ELSE {})
                \cup (IF i >= lkeysize THEN {"leaf key read out of bounds"} ELSE {})
      IN IF rl.trap
         THEN {[trap |-> TRUE, i |-> i, prefix |-> prefix, kmem |-> rk.mem,
                flags |-> fl]}
         ELSE IF rk.byte = rl.byte
         THEN SplitLoop(rk.mem, ksize, rl.mem, lkeysize, lsize,
                        WritePrefix(prefix, i - depth, rk.byte), depth, i + 1,
                        IF i - depth >= MAX_PREFIX_LEN
                        THEN fl \cup {"prefix overflow"} ELSE fl)
         ELSE {[trap |-> FALSE, i |-> i, prefix |-> prefix, kmem |-> rk.mem,
                flags |-> fl]}
      : rl \in ReadMem(lmem, lsize, i) }
    : rk \in ReadMem(kmem, ksize, i) }

FlagAll(S, flags) == [S EXCEPT !.ub = @ \cup flags]

\* memcpy(new_node->prefix, node->prefix, p) into the zeroed array of a new Node
CopyPrefix(prefix, p) ==
  [j \in 1..MAX_PREFIX_LEN |-> IF j <= p THEN prefix[j] ELSE 0]

\* memmove(node->prefix, node->prefix + p + 1, len)
ShiftPrefix(prefix, p, len) ==
  [j \in 1..MAX_PREFIX_LEN |->
     IF j <= len
     THEN (IF j + p + 1 <= Len(prefix) THEN prefix[j + p + 1] ELSE 0)
     ELSE prefix[j]]

(* prefix_len is not capped: a node whose prefix_len reaches MAX_PREFIX_LEN  *)
(* has its prefix read behind the array, where the bytes are whatever the  *)
(* object holds there.  PrefixTails(n) are the bytes such reads can find,  *)
(* Widen(n, tail) is n with them laid behind its prefix array.             *)
PrefixTails(n) ==
  IF n.prefix_len < MAX_PREFIX_LEN THEN {<<>>}
  ELSE [1..(n.prefix_len - MAX_PREFIX_LEN + 1) -> JunkBytes]

Widen(n, tail) == [n EXCEPT !.prefix = @ \o tail]

\* check_prefix, having returned p, has read prefix[i] for some i >= MAX_PREFIX_LEN
CheckPrefixOOB(n, key, depth, p) ==
  \E i \in depth..(depth + p) :
    i >= MAX_PREFIX_LEN /\ i < n.prefix_len /\ i < Len(key)

\* the leaf case of recursive_insert, keys differ: a new Node4 takes the slot
SplitLeaf(S, ref, node, key, kmem, leaf, depth) ==
  LET n == S.heap[node]
      loops == SplitLoop(kmem, Len(key), n.lkey \o n.lval, Len(n.lkey),
                         Len(n.lkey) + Len(n.lval), NewNode4.prefix, depth,
                         depth, {})
  IN { IF r.trap
       THEN Trap(Alloc(FlagAll(S, r.flags),
                       [make_node("Node4", <<>>, <<>>) EXCEPT !.prefix = r.prefix]),
                 "trapped read")
       ELSE LET new0 == [make_node("Node4", <<>>, <<>>) EXCEPT
                           !.prefix = r.prefix, !.prefix_len = r.i - depth]
                a1 == add_child(new0, r.kmem[r.i + 1], leaf, TRUE)
                a2 == add_child(a1.n, 0, node, TRUE)
                new_node == NewPtr(S)
            IN Store(Alloc(FlagAll(S, r.flags), a2.n), ref, new_node)
       : r \in loops }

\* the prefix-mismatch case of recursive_insert: a new Node4 above the old node
SplitPrefix(S, ref, node, n, key, kmem, leaf, depth, p) ==
  IF ~(p < n.prefix_len) THEN {Trap(S, "assert p < node->prefix_len")}
  ELSE
  { IF rk.trap THEN Trap(S, "key read out of bounds")
    ELSE LET S0 == IF rk.oob THEN Flag(S, "key read out of bounds") ELSE S
             S1 == IF n.prefix_len >= MAX_PREFIX_LEN
                   THEN Flag(S0, "prefix read out of bounds") ELSE S0
             a1 == add_child(make_node("Node4", <<>>, <<>>), rk.byte, leaf, TRUE)
             a2 == add_child(a1.n, n.prefix[p + 1], node, FALSE)
             new == [a2.n EXCEPT !.prefix_len = p,
                                 !.prefix = CopyPrefix(n.prefix, p)]
             old == [n EXCEPT !.prefix_len = n.prefix_len - p,
                              !.prefix = ShiftPrefix(n.prefix, p, n.prefix_len - p)]
             S2 == [S1 EXCEPT !.heap[node] = old]
             new_node == NewPtr(S2)
         IN Store(Alloc(S2, new), ref, new_node)
    : rk \in ReadMem(kmem, Len(key), depth + p) }

\* the last case of recursive_insert, no child for the edge byte
AddLeaf(S, node, ch, leaf) ==
  LET n == S.heap[node]
      f == is_full(n)
      g == IF f.full THEN grow(n) ELSE [n |-> n, halt |-> ""]
      a == add_child(g.n, ch, leaf, TRUE)
  IN IF f.halt # "" THEN Trap(S, f.halt)
     ELSE IF g.halt # "" THEN Trap(S, g.halt)
     ELSE IF a.halt # "" THEN Trap(S, a.halt)
     ELSE [S EXCEPT !.heap[node] = a.n]

RECURSIVE recursive_insert(_, _, _, _, _, _)
recursive_insert(S, node_ref, key, kmem, leaf, depth) ==
  LET node == Load(S, node_ref) IN
  IF node = NULL THEN {Store(S, node_ref, leaf)}
  ELSE UNION {
    IF T.status # "running" THEN {T}
    ELSE LET n == T.heap[node] IN
    IF Node_is_leaf(n)
    THEN IF n.lkey = key
         THEN Delete(T, node)
         ELSE SplitLeaf(T, node_ref, node, key, kmem, leaf, depth)
    ELSE UNION {
      LET nw == Widen(n, tail)
          p == check_prefix(nw, key, depth)
          oob == CheckPrefixOOB(nw, key, depth, p)
          T0 == IF oob THEN Flag(T, "prefix read out of bounds") ELSE T
      IN (IF oob THEN {Trap(T, "prefix read out of bounds")} ELSE {})
         \cup
         IF p # n.prefix_len
         THEN SplitPrefix(T0, node_ref, node, nw, key, kmem, leaf, depth, p)
         ELSE UNION {
           IF rk.trap THEN {Trap(T0, "key read out of bounds")}
           ELSE LET T1 == IF rk.oob THEN Flag(T0, "key read out of bounds") ELSE T0
                    next == find_child(n, rk.byte, FALSE)
                IN IF next.halt # "" THEN {Trap(T1, next.halt)}
                   ELSE IF next.slot # 0
                   THEN recursive_insert(T1, <<node, next.slot>>, key, rk.mem,
                                         leaf, depth + n.prefix_len + 1)
                   ELSE {AddLeaf(T1, node, rk.byte, leaf)}
           : rk \in ReadMem(kmem, Len(key), depth + n.prefix_len) }
      : tail \in PrefixTails(n) }
    : T \in Touch(S, node) }

\* ArtTree::insert
insert(S, key, val) ==
  LET leaf == NewPtr(S)
  IN recursive_insert(Alloc(S, make_node("Leaf", key, val)), <<0, 0>>, key, key,
                      leaf, 0)

(* ArtTree::search.  Yields the set of [found, val, halt, flags].           *)

Miss(flags) == [found |-> FALSE, val |-> <<>>, halt |-> "", flags |-> flags]

RECURSIVE SearchLoop(_, _, _, _, _)
SearchLoop(S, cur, key, depth, flags) ==
  IF cur = NULL THEN {Miss(flags)}
  ELSE UNION {
    IF T.status # "running"
    THEN {[found |-> FALSE, val |-> <<>>, halt |-> "use after free",
           flags |-> flags \cup {"use after free"}]}
    ELSE LET n == T.heap[cur]
             fl == flags \cup (T.ub \ S.ub)
         IN
    IF Node_is_leaf(n)
    THEN IF n.lkey = key
         THEN {[found |-> TRUE, val |-> n.lval, halt |-> "", flags |-> fl]}
         ELSE {Miss(fl)}
    ELSE UNION {
      LET nw == Widen(n, tail)
          p == check_prefix(nw, key, depth)
          oob == CheckPrefixOOB(nw, key, depth, p)
          fl0 == IF oob THEN fl \cup {"prefix read out of bounds"} ELSE fl
          d == depth + n.prefix_len
      IN (IF oob
          THEN {[found |-> FALSE, val |-> <<>>,
                 halt |-> "prefix read out of bounds", flags |-> fl]}
          ELSE {})
         \cup
         IF p # n.prefix_len THEN {Miss(fl0)}
         ELSE IF ~(d <= Len(key))
         THEN {[found |-> FALSE, val |-> <<>>,
                halt |-> "assert depth <= key.size()", flags |-> fl0]}
         ELSE LET ch == IF d < Len(key) THEN key[d + 1] ELSE 0
                  next == find_child(n, ch, d = Len(key))
              IN IF next.halt # ""
                 THEN {[found |-> FALSE, val |-> <<>>, halt |-> next.halt,
                        flags |-> fl0]}
                 ELSE IF next.slot = 0 THEN {Miss(fl0)}
                 ELSE SearchLoop(S, Deref(n, next.slot), key, d + 1, fl0)
      : tail \in PrefixTails(n) }
    : T \in Touch(S, cur) }

search(S, key) == SearchLoop(S, S.root, key, 0, {})

(* ArtTree::~ArtTree, destory(root_, -1, 0): only the children of a Node4   *)
(* are visited, then the node is deleted.                                  *)

RECURSIVE destory(_, _)
RECURSIVE DestroyChildren(_, _, _)

DestroyChildren(S, cur, i) ==
  IF i >= Cap4 \/ S.status # "running" THEN {S}
  ELSE LET child == S.heap[cur].children[i + 1] IN
       IF child # NULL
       THEN UNION {DestroyChildren(T, cur, i + 1) : T \in destory(S, child)}
       ELSE DestroyChildren(S, cur, i + 1)

destory(S, cur) ==
  IF cur = NULL \/ S.status # "running" THEN {S}
  ELSE UNION {
    IF T.status # "running" THEN {T}
    ELSE UNION {
      IF U.status # "running" THEN {U} ELSE Delete(U, cur)
      : U \in IF T.heap[cur].type = "Node4"
              THEN DestroyChildren(T, cur, 0) ELSE {T} }
    : T \in Touch(S, cur) }

----------------------------------------------------------------------------
(* Spec: an ArtTree, empty after construction, on which insert and search   *)
(* are called with keys and values of the run's profile, and which is      *)
(* destroyed at the end.                                                   *)

Profiles == {"nested", "zero", "wide", "long"}

\* a key of MAX_PREFIX_LEN + 1 bytes 0x01 followed by the byte b
LongKey(b) == [i \in 1..(MAX_PREFIX_LEN + 2) |-> IF i <= MAX_PREFIX_LEN + 1 THEN 1 ELSE b]

Keys(pr) ==
  CASE pr = "nested" -> {<<1>>, <<1, 2>>, <<1, 2, 3>>, <<1, 2, 4>>, <<1, 3>>}
    [] pr = "zero" -> {<<>>, <<0>>, <<0, 1>>, <<0, 2>>, <<1>>}
    [] pr = "wide" -> {<<1>>, <<2>>, <<3>>, <<4>>, <<5>>}
    [] pr = "long" -> {LongKey(2), LongKey(3), <<1, 4>>}
    [] OTHER -> {}

Vals(pr) ==
  CASE pr = "nested" -> {<<2>>}
    [] pr = "zero" -> {<<2>>}
    [] pr = "wide" -> {<<9>>}
    [] pr = "long" -> {<<7>>, <<9>>}
    [] OTHER -> {}

InsertBudget(pr) == IF pr = "wide" THEN MaxWideInserts ELSE MaxInserts

TreeState == [heap |-> heap, freed |-> freed, root |-> root, status |-> status,
              ub |-> ub]

SetTree(S) ==
  /\ heap' = S.heap
  /\ freed' = S.freed
  /\ root' = S.root
  /\ status' = S.status
  /\ ub' = S.ub

TreeInit ==
  /\ heap = <<>>
  /\ freed = <<>>
  /\ root = NULL
  /\ status = "running"
  /\ ub = {}
  /\ profile \in Profiles
  /\ model = <<>>
  /\ repeated = FALSE
  /\ ninserts = 0
  /\ sres = NoSres
  /\ NodeIdle
  /\ PrefixIdle

Insert(key, val) ==
  /\ status = "running"
  /\ ninserts < InsertBudget(profile)
  /\ \E S \in insert(TreeState, key, val) : SetTree(S)
  /\ model' = [k \in DOMAIN model \cup {key} |-> IF k = key THEN val ELSE model[k]]
  /\ repeated' = (repeated \/ key \in DOMAIN model)
  /\ ninserts' = ninserts + 1
  /\ sres' = [NoSres EXCEPT !.op = "insert", !.key = key, !.found = TRUE]
  /\ UNCHANGED <<profile, cp>>
  /\ UNCHANGED uvars

Search(key) ==
  /\ status = "running"
  /\ \E r \in search(TreeState, key) :
       /\ status' = IF r.halt # "" THEN "aborted" ELSE status
       /\ ub' = ub \cup r.flags \cup (IF r.halt # "" THEN {r.halt} ELSE {})
       /\ sres' = [NoSres EXCEPT !.op = "search", !.key = key,
                                 !.found = r.found, !.val = r.val]
  /\ UNCHANGED <<heap, freed, root, profile, model, repeated, ninserts, cp>>
  /\ UNCHANGED uvars

Destroy ==
  /\ status = "running"
  /\ \E S \in destory(TreeState, root) :
       SetTree(IF S.status = "running" THEN [S EXCEPT !.status = "destroyed"] ELSE S)
  /\ sres' = [NoSres EXCEPT !.op = "destroy"]
  /\ UNCHANGED <<profile, model, repeated, ninserts, cp>>
  /\ UNCHANGED uvars

Next ==
  \/ \E key \in Keys(profile), val \in Vals(profile) : Insert(key, val)
  \/ \E key \in Keys(profile) : Search(key)
  \/ Destroy

Init == TreeInit

Spec == Init /\ [][Next]_vars

----------------------------------------------------------------------------
(* Properties of one Node (NodeSpec)                                        *)

\* the Node* find_child(b) yields on node n, NULL when it returns nullptr
ChildAt(n, b) == Deref(n, find_child(n, b, FALSE).slot)

AddedBytes == {pr[1] : pr \in uadded}

NextKind(type) ==
  CASE type = "Node4" -> "Node16"
    [] type = "Node16" -> "Node48"
    [] type = "Node48" -> "Node256"
    [] OTHER -> "Invalid"

\* the bytes stored with the occupied slots of a Node4 or Node16
SlotBytes(n) == {n.key[s] : s \in {t \in 1..Len(n.children) : n.children[t] # NULL}}

\* a Node4 or Node16 whose occupied slots carry pairwise-distinct bytes
DistinctSlotBytes(n) ==
  \A s, t \in 1..Len(n.children) :
    (n.children[s] # NULL /\ n.children[t] # NULL /\ s # t) => n.key[s] # n.key[t]

\* C5: grow() of a Node48 yields a Node256 in which every byte b that had a
\* child (child_index[b] != 0xFF) finds that same child: children sit at
\* their byte value, not at their slot number.
C5_Grow48KeepsBytes ==
  [][(ures'.op = "grow" /\ un.type = "Node48")
       => /\ un'.type = "Node256"
          /\ \A b \in Byte :
               un.child_index[b + 1] # NOIDX
                 => ChildAt(un', b) = un.children[un.child_index[b + 1] + 1]]_vars

\* C6: grow() of a Node4 (Node16) whose children sit under pairwise-distinct
\* bytes makes it a Node16 (Node48) in which find_child(b) yields the same
\* child as before for every byte b that had one, full node or not.
C6_GrowKeepsChildren ==
  [][(ures'.op = "grow" /\ un.type \in {"Node4", "Node16"} /\ DistinctSlotBytes(un))
       => /\ un'.type = NextKind(un.type)
          /\ \A b \in SlotBytes(un) : ChildAt(un', b) = ChildAt(un, b)]_vars

\* C6 witness: a full Node16 has grown into a Node48 that holds its 16 children
C6_Witness ==
  /\ ures.op = "grow"
  /\ un.type = "Node48"
  /\ uinit = "Node16"
  /\ Occupied(un) = Cap16

\* C8: find_child(b) returns nullptr for every byte b under which no child
\* was ever added, 0x00 and partially filled nodes included.
C8_FindAbsentNull ==
  (ures.op = "find_child" /\ ~ures.is_leaf /\ ures.ch \notin AddedBytes)
    => ures.slot = 0

\* C9: on a node of capacity C filled by add_child alone, add_child under a
\* byte not yet used succeeds while fewer than C children are held, and
\* find_child then yields every child under the byte it was added with; on a
\* node holding C children add_child returns false and changes no lookup.
C9_AddChildCapacity ==
  [][(ucount' = ucount + 1 /\ un.type = uinit)
       => IF Occupied(un) = Capacity(un.type)
          THEN /\ ~ures'.ok
               /\ \A b \in Byte : ChildAt(un', b) = ChildAt(un, b)
          ELSE NextByte \notin AddedBytes
                 => /\ ures'.ok
                    /\ ChildAt(un', NextByte) = ucount + 1
                    /\ \A pr \in uadded : ChildAt(un', pr[1]) = pr[2]]_vars

\* C9 witness: add_child was refused by a Node48 that holds 48 children
C9_Witness ==
  /\ ures.op = "add_child"
  /\ ~ures.ok
  /\ un.type = "Node48"
  /\ uinit = "Node48"
  /\ Occupied(un) = Cap48
  /\ Cardinality(uadded) = Cap48

----------------------------------------------------------------------------
(* Properties of check_prefix (PrefixSpec)                                  *)

\* length of the longest common prefix of a[0..alen) and b[from..)
RECURSIVE LCP(_, _, _, _, _)
LCP(a, alen, b, from, j) ==
  IF j < alen /\ from + j < Len(b) /\ a[j + 1] = b[from + j + 1]
  THEN LCP(a, alen, b, from, j + 1)
  ELSE j

\* C10: check_prefix(key, depth) is the length of the longest common prefix
\* of prefix[0..prefix_len) and key[depth..]: prefix byte j is compared with
\* key byte depth + j.
C10_CheckPrefixIsLCP ==
  cp.done => cp.res = LCP(cp.prefix, cp.prefix_len, cp.key, cp.depth, 0)

----------------------------------------------------------------------------
(* Properties of the tree (Spec)                                            *)

Inserted == DOMAIN model

\* the kind an inner node must have to hold c children
KindFor(c) ==
  IF c <= Cap4 THEN "Node4"
  ELSE IF c <= Cap16 THEN "Node16"
  ELSE IF c <= Cap48 THEN "Node48"
  ELSE "Node256"

\* C1: after inserts with pairwise-distinct keys, in any order, search(k)
\* returns true and the value inserted with k, for every inserted key k.
C1_SearchFindsInserted ==
  (sres.op = "search" /\ ~repeated /\ sres.key \in Inserted)
    => /\ status = "running"
       /\ sres.found
       /\ sres.val = model[sres.key]

\* C2: after insert(k, v1) and insert(k, v2), the slot that held the old
\* leaf refers to the new leaf carrying v2, and search(k) returns v2.
C2_ReinsertReplaces ==
  (ninserts = 2 /\ repeated)
    => /\ status = "running"
       /\ root # NULL
       /\ freed[root] = 0
       /\ \A k \in Inserted :
            /\ heap[root].type = "Leaf"
            /\ heap[root].lkey = k
            /\ heap[root].lval = model[k]
            /\ (sres.op = "search" /\ sres.key = k)
                 => (sres.found /\ sres.val = model[k])

\* C3: after inserts with pairwise-distinct keys, search(u) returns false
\* for every key u that was never inserted.
C3_SearchMissesAbsent ==
  (sres.op = "search" /\ ~repeated /\ sres.key \notin Inserted)
    => /\ status = "running"
       /\ ~sres.found

\* C4: an insert that finds an inner node at capacity without a child for
\* the edge byte promotes it once and adds the leaf: with n pairwise-distinct
\* single-byte keys inserted, the root holds n children and has the kind
\* that n children need (Node16 for 5).
C4_FullNodeGrows ==
  (profile = "wide" /\ ~repeated /\ ninserts >= 2 /\ status = "running")
    => /\ root # NULL
       /\ heap[root].type = KindFor(ninserts)
       /\ Occupied(heap[root]) = ninserts

\* C7: destroying the tree frees every Node the inserts allocated exactly
\* once: none stays allocated and none is deleted twice.
C7_DestroyFreesAllOnce ==
  (sres.op = "destroy")
    => /\ status = "destroyed"
       /\ \A p \in DOMAIN heap : freed[p] = 1

\* the <<node, depth>> pairs a descent through the nodes h from p at depth d reaches
RECURSIVE Reach(_, _, _)
Reach(h, p, d) ==
  IF p = NULL THEN {}
  ELSE {<<p, d>>}
       \cup IF h[p].type = "Leaf" THEN {}
            ELSE UNION {Reach(h, h[p].children[s], d + h[p].prefix_len + 1)
                         : s \in 1..Len(h[p].children)}

\* the depth at which the descent from r reaches node p
DepthOf(h, r, p) == CHOOSE d \in {x[2] : x \in {y \in Reach(h, r, 0) : y[1] = p}} : TRUE

\* the occupied slots of an inner node
Slots(n) == {s \in 1..Len(n.children) : n.children[s] # NULL}

\* the leaf-edge bit of slot s of a Node4
LeafBit(n, s) == get_bit(n.key[5], 1, s - 1)

\* the first position at or after i where a and b differ or one of them ends
RECURSIVE FirstDiff(_, _, _)
FirstDiff(a, b, i) ==
  IF i < Len(a) /\ i < Len(b) /\ a[i + 1] = b[i + 1]
  THEN FirstDiff(a, b, i + 1)
  ELSE i

\* the Node and the leaf the insert of this step has allocated
NewLeafPtr == Len(heap) + 1
NewNodePtr == Len(heap) + 2

\* this step is an insert that has put a new Node4 above the older node o
SplitOver(o) ==
  /\ status' = "running"
  /\ sres'.op = "insert"
  /\ Len(heap') = Len(heap) + 2
  /\ heap'[NewNodePtr].type = "Node4"
  /\ o \in 1..Len(heap)
  /\ o \in {heap'[NewNodePtr].children[s] : s \in Slots(heap'[NewNodePtr])}

\* C11: a split of inner node o on a prefix mismatch at p < prefix_len gives
\* the new Node4 the prefix old[0..p) and o as child under edge old[p], and
\* leaves o with the prefix old[p+1..prefix_len) and prefix_len - (p + 1):
\* the edge byte is consumed.
C11_MismatchSplitPrefix ==
  [][\A o \in 1..Len(heap) :
       (SplitOver(o) /\ heap[o].type \in InnerKinds)
         => LET new_node == heap'[NewNodePtr]
                p == new_node.prefix_len
                old == heap[o]
            IN /\ p < old.prefix_len
               /\ \A j \in 1..p : new_node.prefix[j] = old.prefix[j]
               /\ \E s \in Slots(new_node) :
                    /\ new_node.children[s] = o
                    /\ new_node.key[s] = old.prefix[p + 1]
               /\ heap'[o].prefix_len = old.prefix_len - (p + 1)
               /\ \A j \in 1..(old.prefix_len - (p + 1)) :
                    heap'[o].prefix[j] = old.prefix[j + p + 1]]_vars

\* slot s of Node4 n carries the terminal marker: edge byte 0 with the leaf-edge bit
TerminalAt(n, s) == n.key[s] = 0 /\ LeafBit(n, s)

\* slot s of Node4 n is the edge a leaf with key k takes at position i of its key
EdgeFor(n, s, k, i) ==
  IF i < Len(k) THEN n.key[s] = k[i + 1] /\ ~TerminalAt(n, s)
  ELSE TerminalAt(n, s)

\* C12: a split of the existing leaf e by a different key, i being the first
\* position at or after the depth where the keys differ, gives the new Node4
\* the new leaf under edge key[i] (the terminal marker if the key ends at i)
\* and the existing leaf under edge existing_key[i] (the terminal marker only
\* if the existing key ends at i).
C12_LeafSplitEdges ==
  [][\A e \in 1..Len(heap) :
       (SplitOver(e) /\ heap[e].type = "Leaf")
         => LET new_node == heap'[NewNodePtr]
                key == heap'[NewLeafPtr].lkey
                key2 == heap[e].lkey
                i == FirstDiff(key, key2, DepthOf(heap', root', NewNodePtr))
            IN /\ \E s \in Slots(new_node) :
                    /\ new_node.children[s] = NewLeafPtr
                    /\ IF i < Len(key) THEN new_node.key[s] = key[i + 1]
                       ELSE TerminalAt(new_node, s)
               /\ \E t \in Slots(new_node) :
                    /\ new_node.children[t] = e
                    /\ EdgeFor(new_node, t, key2, i)]_vars

\* C13: a split of the existing leaf e at depth d gives the new Node4 the
\* prefix_len LCP(key[d..], existing_key[d..]): it is bounded by what is left
\* of either key and does not depend on the value bytes of the leaf.
C13_LeafSplitPrefixLen ==
  [][\A e \in 1..Len(heap) :
       (SplitOver(e) /\ heap[e].type = "Leaf")
         => LET d == DepthOf(heap', root', NewNodePtr)
                key == heap'[NewLeafPtr].lkey
                key2 == heap[e].lkey
            IN /\ heap'[NewNodePtr].prefix_len = FirstDiff(key, key2, d) - d
               /\ d + heap'[NewNodePtr].prefix_len <= Len(key)
               /\ d + heap'[NewNodePtr].prefix_len <= Len(key2)]_vars

\* the nodes of the tree with their depths
Nodes == Reach(heap, root, 0)

\* C14: in a tree built by inserts of keys whose common prefixes fit the
\* prefix array, the key of every leaf below an inner node N at depth d
\* continues at offset d with N's prefix and then with the edge byte of the
\* slot of N the leaf is reached through (the terminal marker if it ends there).
C14_PrefixPathInvariant ==
  (status = "running" /\ profile # "long")
    => \A x \in Nodes :
         LET N == heap[x[1]]
             d == x[2]
         IN N.type \in InnerKinds
              => \A s \in Slots(N) :
                   \A y \in Reach(heap, N.children[s], d + N.prefix_len + 1) :
                     heap[y[1]].type = "Leaf"
                       => LET k == heap[y[1]].lkey
                          IN /\ \A j \in 1..N.prefix_len :
                                  d + j <= Len(k) /\ k[d + j] = N.prefix[j]
                             /\ N.type = "Node4"
                                  => IF d + N.prefix_len < Len(k)
                                     THEN N.key[s] = k[d + N.prefix_len + 1]
                                     ELSE TerminalAt(N, s)

\* C15: after any inserts, repeated keys included, no two leaves of the tree
\* store the same key.
C15_KeysUnique ==
  (status = "running")
    => \A x, y \in Nodes :
         (x[1] # y[1] /\ heap[x[1]].type = "Leaf" /\ heap[y[1]].type = "Leaf")
           => heap[x[1]].lkey # heap[y[1]].lkey

\* C16: in every Node4 of the tree the leaf-edge bit of an occupied slot is
\* set exactly when the slot's child is a leaf whose key ends at that edge,
\* its length being the depth of the edge; it is clear for a leaf whose key
\* goes on and for an inner node.
C16_LeafBitMeansTerminal ==
  (status = "running")
    => \A x \in Nodes :
         LET N == heap[x[1]] IN
         N.type = "Node4"
           => \A s \in Slots(N) :
                LeafBit(N, s)
                  <=> /\ heap[N.children[s]].type = "Leaf"
                      /\ Len(heap[N.children[s]].lkey) = x[2] + N.prefix_len

\* what the halting assertions of art.hpp leave in ub when they fail
Assertions ==
  {"assert depth <= key.size()", "assert p < node->prefix_len",
   "Leaf node can't add child", "Leaf node can't grow", "Node256 can't grow",
   "Invalid node type"}

\* C17: no sequence of insert and search calls makes a halting assertion
\* fail: not those of grow, add_child and find_child on a Leaf, a Node256 or
\* an invalid kind, and not assert(depth <= key.size()) of search.
C17_NoAssertionFails ==
  ub \cap Assertions = {}

\* C18: for keys of any length insert writes no prefix byte at an index
\* >= MAX_PREFIX_LEN, and no node has a prefix_len > MAX_PREFIX_LEN, also
\* when two keys have more than MAX_PREFIX_LEN bytes in common.
C18_PrefixWithinArray ==
  /\ "prefix overflow" \notin ub
  /\ \A p \in DOMAIN heap : heap[p].prefix_len <= MAX_PREFIX_LEN

\* C20: no inner node of the tree has two occupied slots with the same edge
\* (the same byte and the same leaf-edge bit), also when the inserted key
\* ends at the split point of an existing leaf.
C20_EdgesDistinct ==
  (status = "running")
    => \A x \in Nodes :
         LET N == heap[x[1]] IN
         N.type = "Node4"
           => \A s, t \in Slots(N) :
                (s # t) => (N.key[s] # N.key[t] \/ LeafBit(N, s) # LeafBit(N, t))

\* C19: after any inserts every node is a Leaf or a Node4: is_full() is
\* false for every inner kind, so insert never calls grow() and no Node16,
\* Node48 or Node256 comes into being.
C19_OnlyLeafAndNode4 ==
  \A p \in DOMAIN heap : heap[p].type \in {"Leaf", "Node4"}

\* C19 witness: a fifth distinct single-byte key was inserted into a root
\* Node4 that holds four children, and the root is still that Node4
C19_Witness ==
  /\ profile = "wide"
  /\ ~repeated
  /\ status = "running"
  /\ ninserts = Cap4 + 1
  /\ sres.op = "insert"
  /\ root # NULL
  /\ heap[root].type = "Node4"
  /\ Occupied(heap[root]) = Cap4

====
